---- MODULE Spec2Model ----
(***************************************************************************)
(* Model of DataCenterBusinessEngine                                       *)
(* (maro/simulator/scenarios/data_center/business_engine.py).              *)
(*                                                                         *)
(* The engine's three handlers (_on_vm_required, _on_vm_finished,          *)
(* _on_action_received) and step() are translated from the source.  The    *)
(* event buffer (maro.event_buffer), the harness that drives the ticks,    *)
(* the arrival trace and the decision-maker are collaborators whose code   *)
(* is not part of the engine: they are modelled from the interface the     *)
(* specification gives them (tick ordered, FIFO inside a tick, immediate   *)
(* events first, one handler per registered event type).                   *)
(*                                                                         *)
(* Utilisation (util_cpu, the per-PM utilisation series) is not part of    *)
(* the state: it is computed from VirtualMachine.get_util, no handler      *)
(* branches on it, and none of the properties below reads it.              *)
(***************************************************************************)
EXTENDS Integers, Sequences, FiniteSets, TLC

\* ---- configuration read by _load_configs ----
DelayDuration == 2
PmAmount == 2
PmCapCpu == 2
PmCapMem == 2

\* ---- bounds of the model ----
MaxTick == 2
NumVm == 2
MaxQueue == 2

VmIds == 1..NumVm
PmIds == 0..(PmAmount - 1)

\* ---- requests of the arrival trace ----
\* cpu and memory of a request: a small one, one that takes the whole memory of a PM,
\* one that takes the whole cpu of a PM, one that no PM has the cpu for
VmShapes == {<<1, 1>>, <<1, PmCapMem>>, <<PmCapCpu, 1>>, <<PmCapCpu + 1, 1>>}
Lifetimes == {1}
\* an exhausted budget, one that a postponement makes negative, one that it makes 0
BufferTimes == {0, 1, DelayDuration}

\* payload=None of the requirement event generated by step()
NonePayload == [none |-> TRUE]

VARIABLES
    machines,                 \* self._machines: PM id -> PhysicalMachine
    vm,                       \* self._vm: live VM table, VM id -> VirtualMachine
    successful_requirements,  \* self._successful_requirements
    failed_requirements,      \* self._failed_requirements
    total_latency,            \* self._total_latency (Latency)
    tick,                     \* self._tick
    pending_action_vm_id,     \* self._pending_action_vm_id
    queue,                    \* event buffer: inserted events, in insertion order
    decisions,                \* decision events emitted and not yet answered
    now,                      \* tick the dispatcher is executing
    stepped,                  \* step(now) has been called
    arrived,                  \* VM ids the arrival trace has used
    released,                 \* VM ids the finish handler has released
    agent,                    \* what the decision-maker has done so far: filtered = every assign named a
                              \* PM of its decision's candidate list, matched = every action named the
                              \* VM of the decision it answers, echo = every postpone action returned
                              \* the buffer time of the decision it answers
    history,                  \* what has happened so far: decrements = the buffer time taken off by
                              \* postponements, by cause; assigns = assign actions applied;
                              \* last_decision = VM id of the last decision emitted (-1: none);
                              \* failed = VM ids of the requests counted as failed; postpones = per
                              \* VM id the postponements of its request
    last                      \* the last operation and the event it handled

vars == <<machines, vm, successful_requirements, failed_requirements, total_latency,
          tick, pending_action_vm_id, queue, decisions, now, stepped, arrived,
          released, agent, history, last>>

engine == <<machines, vm, successful_requirements, failed_requirements, total_latency,
            tick, pending_action_vm_id>>

\* ---- helpers ----
RECURSIVE SumOver(_, _)
SumOver(S, f) ==
    IF S = {} THEN 0
    ELSE LET x == CHOOSE y \in S : TRUE IN f[x] + SumOver(S \ {x}, f)

RemoveAt(q, i) == [j \in 1..(Len(q) - 1) |-> IF j < i THEN q[j] ELSE q[j + 1]]

\* index of the first event of the current tick (FIFO inside a tick), 0 if none
FirstDue(q, t) ==
    IF \E i \in 1..Len(q) : q[i].tick = t
    THEN CHOOSE i \in 1..Len(q) : q[i].tick = t /\ \A j \in 1..(i - 1) : q[j].tick # t
    ELSE 0

\* no immediate decision event is waiting for its action
Unblocked == \A i \in 1..Len(decisions) : ~decisions[i].immediate

\* ---- construction ----
PhysicalMachine(i) ==
    [id |-> i, cap_cpu |-> PmCapCpu, cap_mem |-> PmCapMem, req_cpu |-> 0, req_mem |-> 0, vm_set |-> {}]

InitMachines == [i \in PmIds |-> PhysicalMachine(i)]

Init ==
    /\ machines = InitMachines
    /\ vm = [v \in {} |-> NonePayload]
    /\ successful_requirements = 0
    /\ failed_requirements = 0
    /\ total_latency = [latency_due_to_resource |-> 0, latency_due_to_agent |-> 0]
    /\ tick = 0
    /\ pending_action_vm_id = -1
    /\ queue = <<>>
    /\ decisions = <<>>
    /\ now = 0
    /\ stepped = FALSE
    /\ arrived = {}
    /\ released = {}
    /\ agent = [filtered |-> TRUE, matched |-> TRUE, echo |-> TRUE]
    /\ history = [decrements |-> [resource |-> 0, agent |-> 0],
                  assigns |-> 0,
                  last_decision |-> -1,
                  failed |-> {},
                  postpones |-> [id \in VmIds |-> 0]]
    /\ last = [op |-> "init", evt |-> NonePayload]
\* ---- event buffer interface ----
\* gen_cascade_event / gen_atom_event: the event_type is the one the caller passes;
\* a call that passes no event_type yields an event of no registered type.
GenEvent(t, event_type, payload) == [tick |-> t, event_type |-> event_type, payload |-> payload]

InsertEvent(q, event) == Append(q, event)

NoEventType == "NONE"

\* ---- metrics counters ----
\* the failure left uncounted
CountFailedMissed(n) == n

\* lines 193 and 271
CountFailed(n) == n + 1

\* line 216
CountSucceeded(n) == n + 1

\* ---- step(tick) ----
\* _update_pm_util reads self._vm[vm_id] for every id of every vm_set
UpdatePmUtilRaises == \E p \in PmIds : \E id \in machines[p].vm_set : id \notin DOMAIN vm

Step ==
    /\ ~stepped
    /\ Unblocked
    /\ stepped' = TRUE
    /\ tick' = now
    /\ IF UpdatePmUtilRaises
       THEN /\ queue' = queue
            /\ last' = [op |-> "step_key_error", evt |-> NonePayload]
       ELSE LET vm_requirement_event == GenEvent(now, "REQUIREMENTS", NonePayload)
            IN /\ queue' = InsertEvent(queue, vm_requirement_event)
               /\ last' = [op |-> "step", evt |-> vm_requirement_event]
    /\ UNCHANGED <<machines, vm, successful_requirements, failed_requirements, total_latency,
                   pending_action_vm_id, decisions, now, arrived, released, agent, history>>

\* ---- arrival trace: a requirement event that carries a VmRequirementPayload ----
\* the trace numbers its requests 1, 2, ...: an id is used by one request only
NextVmId == {id \in VmIds : id = Cardinality(arrived) + 1}

Arrive ==
    /\ ~stepped
    /\ Unblocked
    /\ Len(queue) < MaxQueue
    /\ \E id \in NextVmId, shape \in VmShapes, l \in Lifetimes, b \in BufferTimes :
        LET vm_req == [id |-> id, req_cpu |-> shape[1], req_mem |-> shape[2], lifetime |-> l]
            event == GenEvent(now, "REQUIREMENTS", [vm_req |-> vm_req, buffer_time |-> b])
        IN /\ queue' = InsertEvent(queue, event)
           /\ arrived' = arrived \cup {id}
           /\ last' = [op |-> "arrive", evt |-> event]
    /\ UNCHANGED <<engine, decisions, now, stepped, released, agent, history>>

\* ---- a FINISHED event handed to the dispatcher: for a live VM whose lifetime has
\* elapsed, or once more for a VM that was released ----
InsertFinished ==
    /\ ~stepped
    /\ Unblocked
    /\ Len(queue) < MaxQueue
    /\ \E id \in {i \in DOMAIN vm : vm[i].end_tick <= now} \cup released :
        LET event == GenEvent(now, "FINISHED", [vm_id |-> id])
        IN /\ queue' = InsertEvent(queue, event)
           /\ last' = [op |-> "insert_finished", evt |-> event]
    /\ UNCHANGED <<engine, decisions, now, stepped, arrived, released, agent, history>>

\* ---- _on_vm_required ----
\* the filter written with > in place of >=
ValidPmListStrict(ms, vm_req) ==
    SelectSeq([i \in 1..PmAmount |->
                  [id |-> ms[i - 1].id,
                   cpu |-> ms[i - 1].cap_cpu - ms[i - 1].req_cpu,
                   mem |-> ms[i - 1].cap_mem - ms[i - 1].req_mem]],
              LAMBDA c : c.cpu > vm_req.req_cpu)

ValidPmList(ms, vm_req) ==
    SelectSeq([i \in 1..PmAmount |->
                  [id |-> ms[i - 1].id,
                   cpu |-> ms[i - 1].cap_cpu - ms[i - 1].req_cpu,
                   mem |-> ms[i - 1].cap_mem - ms[i - 1].req_mem]],
              LAMBDA c : c.cpu >= vm_req.req_cpu)

\* the re-emitted event with the budget left as it was
ResourcePostponeEventSameBudget(evt) ==
    GenEvent(evt.tick + DelayDuration, "REQUIREMENTS", evt.payload)

\* lines 181-188: the payload's budget is decreased in place and re-emitted
ResourcePostponeEvent(evt) ==
    LET postpone_payload == [evt.payload EXCEPT !.buffer_time = @ - DelayDuration]
    IN GenEvent(evt.tick + DelayDuration, "REQUIREMENTS", postpone_payload)

AddResourceLatency(latency) ==
    [latency EXCEPT !.latency_due_to_resource = @ + DelayDuration]

\* the decision event put on the buffer with insert_event instead
EmitDecisionInserted(ds, decision_event) == Append(ds, [decision_event EXCEPT !.immediate = FALSE])

\* the decision event is attached to the requirement event as an immediate event
EmitDecision(ds, decision_event) == Append(ds, [decision_event EXCEPT !.immediate = TRUE])

\* the pending id left at its initial value
SetPendingNone(vm_req) == -1

\* line 177
SetPending(vm_req) == vm_req.id

OnVmRequired(evt, q) ==
    IF evt.payload = NonePayload
    THEN \* payload.vm_req on None
         /\ queue' = q
         /\ last' = [op |-> "required_attribute_error", evt |-> evt]
         /\ UNCHANGED <<engine, decisions>>
    ELSE
      LET payload == evt.payload
          vm_req == payload.vm_req
          remaining_buffer_time == payload.buffer_time
          valid_pm_list == ValidPmList(machines, vm_req)
      IN IF Len(valid_pm_list) > 0
         THEN LET decision_payload == [valid_pm |-> valid_pm_list, vm_info |-> vm_req,
                                       buffer_time |-> remaining_buffer_time]
                  pending_decision_event == [tick |-> evt.tick, payload |-> decision_payload,
                                             immediate |-> FALSE]
              IN /\ decisions' = EmitDecision(decisions, pending_decision_event)
                 /\ pending_action_vm_id' = SetPending(vm_req)
                 /\ queue' = q
                 /\ last' = [op |-> "decision", evt |-> evt]
                 /\ UNCHANGED <<machines, vm, successful_requirements, failed_requirements,
                                total_latency, tick>>
         ELSE IF remaining_buffer_time > 0
              THEN LET postpone_event == ResourcePostponeEvent(evt)
                   IN /\ total_latency' = AddResourceLatency(total_latency)
                      /\ queue' = InsertEvent(q, postpone_event)
                      /\ last' = [op |-> "postpone_resource", evt |-> evt]
                      /\ UNCHANGED <<machines, vm, successful_requirements, failed_requirements,
                                     tick, pending_action_vm_id, decisions>>
              ELSE /\ failed_requirements' = CountFailed(failed_requirements)
                   /\ queue' = q
                   /\ last' = [op |-> "fail_resource", evt |-> evt]
                   /\ UNCHANGED <<machines, vm, successful_requirements, total_latency,
                                  tick, pending_action_vm_id, decisions>>

\* ---- _on_vm_finished ----
ReleasePm(physical_machine, virtual_machine) ==
    [physical_machine EXCEPT
        !.req_cpu = @ - virtual_machine.req_cpu,
        !.req_mem = @ - virtual_machine.req_mem,
        !.vm_set = @ \ {virtual_machine.id}]

\* the table left as it is
PopVmKept(table, vm_id) == table

PopVm(table, vm_id) == [v \in DOMAIN table \ {vm_id} |-> table[v]]

OnVmFinished(evt, q) ==
    LET vm_id == evt.payload.vm_id
    IN /\ queue' = q
       /\ UNCHANGED <<tick, pending_action_vm_id, total_latency, failed_requirements, decisions>>
       /\ IF vm_id \notin DOMAIN vm
          THEN \* self._vm[vm_id] raises KeyError before anything is changed
               /\ last' = [op |-> "finish_key_error", evt |-> evt]
               /\ UNCHANGED <<machines, vm, successful_requirements, released>>
          ELSE LET virtual_machine == vm[vm_id]
                   p == virtual_machine.pm_id
               IN /\ machines' = [machines EXCEPT ![p] = ReleasePm(@, virtual_machine)]
                  /\ vm' = PopVm(vm, vm_id)
                  /\ successful_requirements' = CountSucceeded(successful_requirements)
                  /\ released' = released \cup {vm_id}
                  /\ last' = [op |-> "finish", evt |-> evt]

\* ---- _on_action_received ----
\* the VM descriptor carried by requirement, decision and action payloads
Descriptor(v) == [id |-> v.id, req_cpu |-> v.req_cpu, req_mem |-> v.req_mem, lifetime |-> v.lifetime]

\* the end tick taken as the lifetime alone, not counted from the start tick
AssignVmEndLifetime(vm_req, pm_id, cur_tick) ==
    [id |-> vm_req.id, req_cpu |-> vm_req.req_cpu, req_mem |-> vm_req.req_mem,
     lifetime |-> vm_req.lifetime, pm_id |-> pm_id, start_tick |-> cur_tick,
     end_tick |-> vm_req.lifetime]

\* lines 232-234
AssignVm(vm_req, pm_id, cur_tick) ==
    [id |-> vm_req.id, req_cpu |-> vm_req.req_cpu, req_mem |-> vm_req.req_mem,
     lifetime |-> vm_req.lifetime, pm_id |-> pm_id, start_tick |-> cur_tick,
     end_tick |-> cur_tick + vm_req.lifetime]

\* line 237
PutVm(table, v) == [i \in DOMAIN table \cup {v.id} |-> IF i = v.id THEN v ELSE table[i]]

\* lines 240-244: gen_atom_event is called with tick and payload only
FinishedEvent(cur_tick, v) == GenEvent(cur_tick + v.lifetime, NoEventType, [vm_id |-> v.id])

\* the requests taken off the totals instead of added
AddVmToPmSubtract(pm, v) ==
    [pm EXCEPT !.vm_set = @ \cup {v.id}, !.req_cpu = @ - v.req_cpu, !.req_mem = @ - v.req_mem]

\* lines 248-251
AddVmToPm(pm, v) ==
    [pm EXCEPT !.vm_set = @ \cup {v.id}, !.req_cpu = @ + v.req_cpu, !.req_mem = @ + v.req_mem]

\* the re-emitted event with the budget the action carries
AgentPostponeEventSameBudget(evt_tick, v, remaining_buffer_time) ==
    GenEvent(evt_tick + DelayDuration, NoEventType,
             [vm_req |-> v, buffer_time |-> remaining_buffer_time])

\* lines 257-266: gen_cascade_event is called with tick and payload only
AgentPostponeEvent(evt_tick, v, remaining_buffer_time) ==
    GenEvent(evt_tick + DelayDuration, NoEventType,
             [vm_req |-> v, buffer_time |-> remaining_buffer_time - DelayDuration])

\* the delay booked on the resource component
AddAgentLatencyToResource(latency) ==
    [latency EXCEPT !.latency_due_to_resource = @ + DelayDuration]

AddAgentLatency(latency) ==
    [latency EXCEPT !.latency_due_to_agent = @ + DelayDuration]

\* VM objects the decision-maker can put in an action: the one of the decision, or a live one
AgentVms(decision) == {decision.payload.vm_info} \cup {Descriptor(vm[i]) : i \in DOMAIN vm}

\* buffer times the decision-maker can return
AgentBufferTimes(decision) == {decision.payload.buffer_time, 0, DelayDuration}

CandidateIds(decision) == {decision.payload.valid_pm[i].id : i \in 1..Len(decision.payload.valid_pm)}

OnActionReceived(evt) ==
    LET cur_tick == evt.tick
        action == evt.payload
        assign == action.assign
        v == action.vm_req
        reported == v.id # pending_action_vm_id
    IN IF assign
       THEN LET pm_id == action.pm_id
                new_vm == AssignVm(v, pm_id, cur_tick)
            IN /\ vm' = PutVm(vm, new_vm)
               /\ queue' = InsertEvent(queue, FinishedEvent(cur_tick, new_vm))
               /\ machines' = [machines EXCEPT ![pm_id] = AddVmToPm(@, new_vm)]
               /\ last' = [op |-> "assign", evt |-> evt, reported |-> reported]
               /\ UNCHANGED <<successful_requirements, failed_requirements, total_latency,
                              tick, pending_action_vm_id>>
       ELSE LET remaining_buffer_time == action.buffer_time
            IN IF remaining_buffer_time > 0
               THEN /\ total_latency' = AddAgentLatency(total_latency)
                    /\ queue' = InsertEvent(queue, AgentPostponeEvent(evt.tick, v, remaining_buffer_time))
                    /\ last' = [op |-> "postpone_agent", evt |-> evt, reported |-> reported]
                    /\ UNCHANGED <<machines, vm, successful_requirements, failed_requirements,
                                   tick, pending_action_vm_id>>
               ELSE /\ failed_requirements' = CountFailed(failed_requirements)
                    /\ queue' = queue
                    /\ last' = [op |-> "fail_agent", evt |-> evt, reported |-> reported]
                    /\ UNCHANGED <<machines, vm, successful_requirements, total_latency,
                                   tick, pending_action_vm_id>>

\* what the action handler did with the request the action names (action.vm_req)
RecordAction(action) ==
    LET id == action.vm_req.id
        reemitted == ~action.assign /\ Len(queue') > Len(queue)
    IN [history EXCEPT
          !.decrements.agent =
              @ + (IF reemitted
                   THEN action.buffer_time - queue'[Len(queue')].payload.buffer_time ELSE 0),
          !.postpones[id] = @ + (IF reemitted THEN 1 ELSE 0),
          !.assigns = @ + (IF action.assign THEN 1 ELSE 0),
          !.failed = IF failed_requirements' > failed_requirements THEN @ \cup {id} ELSE @]

\* ---- dispatcher and harness ----
\* the decision-maker answers the oldest unanswered decision with one action, which the
\* dispatcher delivers to _on_action_received at the decision's tick
TakeAction ==
    /\ decisions # <<>>
    /\ LET decision == Head(decisions)
       IN \E v \in AgentVms(decision), assign \in BOOLEAN :
          \E pm_id \in (IF assign THEN PmIds ELSE {-1}),
             b \in (IF assign THEN {decision.payload.buffer_time} ELSE AgentBufferTimes(decision)) :
            LET action == [vm_req |-> v, assign |-> assign, pm_id |-> pm_id, buffer_time |-> b,
                           decision |-> decision.payload]
                evt == [tick |-> decision.tick, event_type |-> "TAKE_ACTION", payload |-> action]
            IN /\ OnActionReceived(evt)
               /\ agent' = [filtered |-> agent.filtered /\ (assign => pm_id \in CandidateIds(decision)),
                            matched |-> agent.matched /\ v = decision.payload.vm_info,
                            echo |-> agent.echo /\ (~assign => b = decision.payload.buffer_time)]
               /\ history' = RecordAction(action)
    /\ decisions' = Tail(decisions)
    /\ UNCHANGED <<now, stepped, arrived, released>>

Due == FirstDue(queue, now)

\* what the requirement handler did with a request, read off the buffer, the decisions
\* and the counter it leaves behind
RecordRequirement(payload) ==
    LET id == payload.vm_req.id
        reemitted == Len(queue') = Len(queue)
        decided == Len(decisions') > Len(decisions)
    IN [history EXCEPT
          !.decrements.resource =
              @ + (IF reemitted
                   THEN payload.buffer_time - queue'[Len(queue')].payload.buffer_time ELSE 0),
          !.postpones[id] = @ + (IF reemitted THEN 1 ELSE 0),
          !.last_decision =
              IF decided THEN decisions'[Len(decisions')].payload.vm_info.id ELSE @,
          !.failed = IF failed_requirements' > failed_requirements THEN @ \cup {id} ELSE @]

DeliverRequirement ==
    /\ stepped /\ Unblocked /\ Due # 0
    /\ queue[Due].event_type = "REQUIREMENTS"
    /\ OnVmRequired(queue[Due], RemoveAt(queue, Due))
    /\ history' = IF queue[Due].payload = NonePayload THEN history
                  ELSE RecordRequirement(queue[Due].payload)
    /\ UNCHANGED <<now, stepped, arrived, released, agent>>

DeliverFinished ==
    /\ stepped /\ Unblocked /\ Due # 0
    /\ queue[Due].event_type = "FINISHED"
    /\ OnVmFinished(queue[Due], RemoveAt(queue, Due))
    /\ UNCHANGED <<now, stepped, arrived, agent, history>>

\* an event whose type has no registered handler is taken off the buffer and nothing is called
DeliverUnregistered ==
    /\ stepped /\ Unblocked /\ Due # 0
    /\ queue[Due].event_type \notin {"REQUIREMENTS", "FINISHED"}
    /\ queue' = RemoveAt(queue, Due)
    /\ last' = [op |-> "unregistered", evt |-> queue[Due]]
    /\ UNCHANGED <<engine, decisions, now, stepped, arrived, released, agent, history>>

AdvanceTick ==
    /\ stepped /\ decisions = <<>> /\ Due = 0
    /\ now < MaxTick
    /\ now' = now + 1
    /\ stepped' = FALSE
    /\ last' = [op |-> "advance", evt |-> NonePayload]
    /\ UNCHANGED <<engine, queue, decisions, arrived, released, agent, history>>

Next ==
    \/ Step
    \/ Arrive
    \/ InsertFinished
    \/ DeliverRequirement
    \/ DeliverFinished
    \/ DeliverUnregistered
    \/ TakeAction
    \/ AdvanceTick

Spec == Init /\ [][Next]_vars

TypeOK ==
    /\ now \in 0..MaxTick
    /\ DOMAIN vm \subseteq VmIds
    /\ successful_requirements \in Nat
    /\ failed_requirements \in Nat

\* ---- properties ----
LiveIds == DOMAIN vm
ReqCpuOf == [p \in PmIds |-> machines[p].req_cpu]
ReqMemOf == [p \in PmIds |-> machines[p].req_mem]
VmCpuOf == [i \in LiveIds |-> vm[i].req_cpu]
VmMemOf == [i \in LiveIds |-> vm[i].req_mem]
HostsOf(id) == {p \in PmIds : id \in machines[p].vm_set}
RequirementOps == {"decision", "postpone_resource", "fail_resource"}
ActionOps == {"assign", "postpone_agent", "fail_agent"}

\* C1: when every assign so far named a PM of the candidate list of the decision it
\* answers, every PM has req_cpu <= cap_cpu and req_mem <= cap_mem.
C1_Capacity ==
    agent.filtered =>
        \A p \in PmIds : /\ machines[p].req_cpu <= machines[p].cap_cpu
                         /\ machines[p].req_mem <= machines[p].cap_mem

\* C2: every live VM is in the vm_set of exactly one PM, and the PMs' req_cpu (req_mem)
\* add up to the live VMs' req_cpu (req_mem).
C2_Conservation ==
    /\ \A id \in LiveIds : Cardinality(HostsOf(id)) = 1
    /\ SumOver(PmIds, ReqCpuOf) = SumOver(LiveIds, VmCpuOf)
    /\ SumOver(PmIds, ReqMemOf) = SumOver(LiveIds, VmMemOf)

\* C3: once an assign action has been applied at tick t for a VM of lifetime L, the event
\* buffer holds a finish event (type FINISHED, the type _on_vm_finished is registered for)
\* for that VM at tick t + L.
C3_FinishScheduled ==
    last.op = "assign" =>
        LET v == last.evt.payload.vm_req
        IN \E i \in 1..Len(queue) :
              /\ queue[i].event_type = "FINISHED"
              /\ queue[i].tick = last.evt.tick + v.lifetime
              /\ queue[i].payload = [vm_id |-> v.id]

\* C4: at most one decision is emitted and unanswered at any instant, and the pending
\* decision id is the VM id of that decision.
C4_SingleOutstanding ==
    /\ Len(decisions) <= 1
    /\ decisions # <<>> => pending_action_vm_id = decisions[1].payload.vm_info.id

\* a decision is outstanding while another request of the same tick waits in the buffer
C4_Witness ==
    /\ Len(decisions) = 1
    /\ \E i \in 1..Len(queue) :
          /\ queue[i].tick = now
          /\ queue[i].event_type = "REQUIREMENTS"
          /\ queue[i].payload # NonePayload
          /\ ValidPmList(machines, queue[i].payload.vm_req) # <<>>

\* does some PM have room for the CPU request (the test of lines 163-164)
Fits(p, vm_req) == machines[p].cap_cpu - machines[p].req_cpu >= vm_req.req_cpu

\* C5: a requirement event with a VM descriptor that finds no candidate PM at tick t is,
\* when its buffer time is > 0, re-emitted as a requirement event at t + delay_duration
\* with the same descriptor and the buffer time decreased by delay_duration, and
\* latency_due_to_resource grows by delay_duration; when its buffer time is <= 0,
\* failed_requirements grows by 1 and no event is emitted.
C5_Step ==
    (last'.op \in RequirementOps /\ \A p \in PmIds : ~Fits(p, last'.evt.payload.vm_req)) =>
        LET evt == last'.evt
            payload == evt.payload
        IN IF payload.buffer_time > 0
           THEN /\ Len(queue') = Len(queue)
                /\ queue'[Len(queue')] =
                      [tick |-> evt.tick + DelayDuration, event_type |-> "REQUIREMENTS",
                       payload |-> [vm_req |-> payload.vm_req,
                                    buffer_time |-> payload.buffer_time - DelayDuration]]
                /\ total_latency'.latency_due_to_resource =
                      total_latency.latency_due_to_resource + DelayDuration
                /\ total_latency'.latency_due_to_agent = total_latency.latency_due_to_agent
                /\ failed_requirements' = failed_requirements
                /\ decisions' = decisions
           ELSE /\ failed_requirements' = failed_requirements + 1
                /\ Len(queue') = Len(queue) - 1
                /\ \A i \in 1..Len(queue') : \E j \in 1..Len(queue) : queue'[i] = queue[j]
                /\ total_latency' = total_latency
                /\ decisions' = decisions

\* C5: every step of the requirement handler that finds no candidate is a step as above
C5_ResourcePostponement == [][C5_Step]_vars

\* Scenario 2: a request with buffer time = delay_duration was postponed once, came back
\* with buffer time 0 and failed
C5_Witness ==
    /\ last.op = "fail_resource"
    /\ last.evt.payload.buffer_time = 0
    /\ last.evt.tick = DelayDuration
    /\ failed_requirements = 1
    /\ total_latency.latency_due_to_resource = DelayDuration

\* C6: once a postpone action with buffer time > 0 has been applied at tick t, the event
\* buffer holds a requirement event (type REQUIREMENTS, the type _on_vm_required is
\* registered for) at t + delay_duration with the same VM descriptor and the buffer time
\* decreased by delay_duration.
C6_AgentPostponeReemitted ==
    last.op = "postpone_agent" =>
        LET action == last.evt.payload
        IN \E i \in 1..Len(queue) :
              /\ queue[i].event_type = "REQUIREMENTS"
              /\ queue[i].tick = last.evt.tick + DelayDuration
              /\ queue[i].payload = [vm_req |-> action.vm_req,
                                     buffer_time |-> action.buffer_time - DelayDuration]

\* C7: after a requirement event with a VM descriptor has been handled, a decision was
\* emitted iff some PM has cap_cpu - req_cpu >= the VM's req_cpu; the decision is an
\* immediate event of the requirement's tick, its candidate list names exactly those PMs,
\* once each, with free cpu and free mem, and the pending decision id is the VM's id.
C7_CandidateSearch ==
    last.op \in RequirementOps =>
        LET vm_req == last.evt.payload.vm_req
            fitting == {p \in PmIds : Fits(p, vm_req)}
        IN IF last.op = "decision"
           THEN /\ fitting # {}
                /\ decisions # <<>>
                /\ LET d == decisions[Len(decisions)]
                       cands == d.payload.valid_pm
                   IN /\ d.tick = last.evt.tick
                      /\ d.immediate
                      /\ d.payload.vm_info = vm_req
                      /\ d.payload.buffer_time = last.evt.payload.buffer_time
                      /\ Len(cands) = Cardinality(fitting)
                      /\ {cands[i] : i \in 1..Len(cands)} =
                            {[id |-> p,
                              cpu |-> machines[p].cap_cpu - machines[p].req_cpu,
                              mem |-> machines[p].cap_mem - machines[p].req_mem] : p \in fitting}
                /\ pending_action_vm_id = vm_req.id
           ELSE fitting = {}

\* a decision whose candidate list leaves a PM out and keeps a PM whose free cpu is
\* exactly the VM's req_cpu
C7_Witness ==
    /\ last.op = "decision"
    /\ Len(decisions[Len(decisions)].payload.valid_pm) = 1
    /\ decisions[Len(decisions)].payload.valid_pm[1].cpu = last.evt.payload.vm_req.req_cpu

\* C8: an action is applied to the VM whose decision is outstanding, also when the
\* action names another VM id: after an assign the pending VM is in the live table on the
\* PM the action names, and after a postponement the re-emitted event carries the
\* pending VM.
C8_AppliedToPending ==
    /\ last.op = "assign" =>
          /\ pending_action_vm_id \in LiveIds
          /\ vm[pending_action_vm_id].pm_id = last.evt.payload.pm_id
          /\ vm[pending_action_vm_id].start_tick = last.evt.tick
    /\ last.op = "postpone_agent" =>
          queue[Len(queue)].payload.vm_req.id = pending_action_vm_id

\* C9: a finish event delivered for a VM of the live table takes the VM off the live table
\* and off the vm_set of exactly one PM, its host, whose totals drop by the VM's requests,
\* and counts one success; a finish event delivered for a VM id that is no longer in the
\* live table changes neither the PMs, nor the live table, nor any counter.
C9_Step ==
    last'.op \in {"finish", "finish_key_error"} =>
        LET id == last'.evt.payload.vm_id
        IN IF id \in LiveIds
           THEN LET changed == {p \in PmIds : machines'[p] # machines[p]}
                    host == vm[id].pm_id
                IN /\ DOMAIN vm' = LiveIds \ {id}
                   /\ \A i \in DOMAIN vm' : vm'[i] = vm[i]
                   /\ {p \in PmIds : machines'[p].vm_set # machines[p].vm_set} = {host}
                   /\ changed = {host}
                   /\ machines'[host].vm_set = machines[host].vm_set \ {id}
                   /\ machines'[host].req_cpu = machines[host].req_cpu - vm[id].req_cpu
                   /\ machines'[host].req_mem = machines[host].req_mem - vm[id].req_mem
                   /\ successful_requirements' = successful_requirements + 1
           ELSE /\ machines' = machines
                /\ vm' = vm
                /\ successful_requirements' = successful_requirements
                /\ failed_requirements' = failed_requirements
                /\ total_latency' = total_latency

\* C9: every delivery of a finish event is a step as above
C9_IdempotentRelease == [][C9_Step]_vars

\* the finish event of a VM that was released before is delivered again
C9_Witness ==
    /\ last.op = "finish_key_error"
    /\ last.evt.payload.vm_id \in released

\* C10: every id of a PM's vm_set is a live VM whose pm_id is that PM, and every live VM
\* is in the vm_set of exactly one PM.
C10_Placement ==
    /\ \A p \in PmIds : \A id \in machines[p].vm_set : id \in LiveIds /\ vm[id].pm_id = p
    /\ \A id \in LiveIds : Cardinality(HostsOf(id)) = 1

\* C2 and C10 hold as long as every action named the VM of the decision it answers
C2_WhenMatched == agent.matched => C2_Conservation
C10_WhenMatched == agent.matched => C10_Placement

\* C11: across every step successful_requirements grows by 1 when a finish event is
\* delivered for a live VM and by 0 otherwise; failed_requirements grows by 1 when a
\* requirement event finds no candidate with its buffer time exhausted or a postpone
\* action arrives with its buffer time exhausted, and by 0 otherwise.
C11_Step ==
    LET finishes == /\ last'.op \in {"finish", "finish_key_error"}
                    /\ last'.evt.payload.vm_id \in LiveIds
        requirement_fails == /\ last'.op \in RequirementOps
                             /\ \A p \in PmIds : ~Fits(p, last'.evt.payload.vm_req)
                             /\ last'.evt.payload.buffer_time <= 0
        action_fails == /\ last'.op \in ActionOps
                        /\ ~last'.evt.payload.assign
                        /\ last'.evt.payload.buffer_time <= 0
    IN /\ successful_requirements' = successful_requirements + (IF finishes THEN 1 ELSE 0)
       /\ failed_requirements' =
             failed_requirements + (IF requirement_fails \/ action_fails THEN 1 ELSE 0)

\* C11: every step changes the two counters as above
C11_CounterMonotonicity == [][C11_Step]_vars

\* a success has been counted and a failure is counted by the action handler
C11_Witness ==
    /\ successful_requirements = 1
    /\ failed_requirements = 1
    /\ last.op = "fail_agent"

\* C12: latency_due_to_resource is the buffer time taken off by the postponements of the
\* requirement handler and latency_due_to_agent the buffer time taken off by the
\* postponements of the action handler, so their sum is the sum of all decrements.
C12_Sum ==
    /\ total_latency.latency_due_to_resource = history.decrements.resource
    /\ total_latency.latency_due_to_agent = history.decrements.agent
    /\ total_latency.latency_due_to_resource + total_latency.latency_due_to_agent =
          history.decrements.resource + history.decrements.agent

C12_NonDecreasing ==
    /\ total_latency'.latency_due_to_resource >= total_latency.latency_due_to_resource
    /\ total_latency'.latency_due_to_agent >= total_latency.latency_due_to_agent

\* C12: the sums agree in every state and no step decreases a latency component
C12_LatencyAdditivity == []C12_Sum /\ [][C12_NonDecreasing]_vars

\* a postponement of each cause has been applied
C12_Witness ==
    /\ total_latency.latency_due_to_resource = DelayDuration
    /\ total_latency.latency_due_to_agent = DelayDuration

\* a request is under way: a requirement event carrying it is in the buffer, its decision
\* waits for an action, or it is assigned and live
UnderWay(id) ==
    \/ \E i \in 1..Len(queue) : /\ queue[i].event_type = "REQUIREMENTS"
                                /\ queue[i].payload # NonePayload
                                /\ queue[i].payload.vm_req.id = id
    \/ \E i \in 1..Len(decisions) : decisions[i].payload.vm_info.id = id
    \/ id \in LiveIds

\* C13: with a decision-maker that returns the buffer time it was given, no request is
\* left without a way to its terminal outcome: every request that has arrived is counted
\* as failed, has been released by its finish event, or is still under way.
C13_NoRequestLost ==
    (DelayDuration > 0 /\ agent.echo) =>
        \A id \in arrived : id \in history.failed \/ id \in released \/ UnderWay(id)

\* C14: every requirement event in the buffer, those of step() included, carries a VM
\* descriptor and a buffer time, and the requirement handler never ends in an error.
C14_RequirementHandled ==
    /\ \A i \in 1..Len(queue) :
          queue[i].event_type = "REQUIREMENTS" => queue[i].payload # NonePayload
    /\ last.op # "required_attribute_error"

StepOps == {"step", "step_key_error"}

\* C15: a step of step(), of the requirement handler or of the action handler takes no VM
\* off the live table, no id off a vm_set, and lowers no PM's req_cpu or req_mem.
C15_Step ==
    last'.op \in StepOps \cup RequirementOps \cup ActionOps \cup {"required_attribute_error"} =>
        /\ LiveIds \subseteq DOMAIN vm'
        /\ \A p \in PmIds :
              /\ machines[p].vm_set \subseteq machines'[p].vm_set
              /\ machines'[p].req_cpu >= machines[p].req_cpu
              /\ machines'[p].req_mem >= machines[p].req_mem

\* C15: every step is as above
C15_FinishSoleRelease == [][C15_Step]_vars

\* an assign action has been applied while another VM was hosted
C15_Witness ==
    /\ last.op = "assign"
    /\ Cardinality(LiveIds) = 2
    /\ \E p \in PmIds : Cardinality(machines[p].vm_set) = 2

\* C16: applying an assign action at tick t for a VM and a target PM p sets the VM's
\* pm_id = p, start_tick = t, end_tick = t + lifetime and puts it in the live table, adds
\* its id to p's vm_set and exactly its req_cpu and req_mem to p's totals, and leaves the
\* other PMs, the other live VMs, both counters and both latency components unchanged.
C16_Step ==
    last'.op = "assign" =>
        LET t == last'.evt.tick
            v == last'.evt.payload.vm_req
            p == last'.evt.payload.pm_id
        IN /\ v.id \in DOMAIN vm'
           /\ vm'[v.id].pm_id = p
           /\ vm'[v.id].start_tick = t
           /\ vm'[v.id].end_tick = t + v.lifetime
           /\ DOMAIN vm' = LiveIds \cup {v.id}
           /\ \A i \in LiveIds \ {v.id} : vm'[i] = vm[i]
           /\ machines'[p].vm_set = machines[p].vm_set \cup {v.id}
           /\ machines'[p].req_cpu = machines[p].req_cpu + v.req_cpu
           /\ machines'[p].req_mem = machines[p].req_mem + v.req_mem
           /\ \A q \in PmIds \ {p} :
                 /\ machines'[q].vm_set = machines[q].vm_set
                 /\ machines'[q].req_cpu = machines[q].req_cpu
                 /\ machines'[q].req_mem = machines[q].req_mem
           /\ successful_requirements' = successful_requirements
           /\ failed_requirements' = failed_requirements
           /\ total_latency' = total_latency

\* C16: every step is as above
C16_AssignEffect == [][C16_Step]_vars

\* an assign action applied after tick 0 while another PM already hosts a VM
C16_Witness ==
    /\ last.op = "assign"
    /\ last.evt.tick > 0
    /\ \E q \in PmIds \ {last.evt.payload.pm_id} : machines[q].vm_set # {}

\* C17: every VM request reaches at most one terminal outcome: none is counted as both
\* successful and failed, none is counted twice in either counter, so the two counters
\* together never exceed the number of requests that arrived and successful_requirements
\* never exceeds the number of assign actions applied.
C17_OneOutcome ==
    /\ released \cap history.failed = {}
    /\ successful_requirements = Cardinality(released)
    /\ failed_requirements = Cardinality(history.failed)
    /\ successful_requirements + failed_requirements <= Cardinality(arrived)
    /\ successful_requirements <= history.assigns

\* C17 for a decision-maker that always answers for the VM of the decision it was given
C17_WhenMatched == agent.matched => C17_OneOutcome

\* C17, the two sums alone
C17_Aggregate ==
    /\ successful_requirements + failed_requirements <= Cardinality(arrived)
    /\ successful_requirements <= history.assigns

FinishEventsOf(id) ==
    {i \in 1..Len(queue) : queue[i].event_type = "FINISHED" /\ queue[i].payload = [vm_id |-> id]}

\* C18: every VM of the live table has exactly one finish event (type FINISHED) in the
\* event buffer, at tick end_tick = start_tick + lifetime, which is not before the current
\* tick, and every finish event in the buffer names a VM of the live table.
C18_LiveVmsFinish ==
    /\ \A id \in LiveIds :
          /\ Cardinality(FinishEventsOf(id)) = 1
          /\ \A i \in FinishEventsOf(id) : queue[i].tick = vm[id].end_tick
          /\ vm[id].end_tick = vm[id].start_tick + vm[id].lifetime
          /\ vm[id].end_tick >= tick
    /\ \A i \in 1..Len(queue) :
          queue[i].event_type = "FINISHED" => queue[i].payload.vm_id \in LiveIds

\* C19: the pending-decision id is -1 until the first decision is emitted and afterwards
\* is the VM id of the most recently emitted decision; the action handler never resets it,
\* so an action is reported as mismatched exactly when its VM id differs from that id,
\* also once the decision's action has been applied.
C19_Pending ==
    /\ pending_action_vm_id = history.last_decision
    /\ last.op \in ActionOps =>
          (last.reported <=> last.evt.payload.vm_req.id # pending_action_vm_id)

C19_Step == last'.op # "decision" => pending_action_vm_id' = pending_action_vm_id

\* C19: the invariant above, and only the emission of a decision writes the id
C19_PendingNeverReset == []C19_Pending /\ [][C19_Step]_vars

\* the action answering the second decision has been applied and the id is still that VM's
C19_Witness ==
    /\ last.op \in ActionOps
    /\ decisions = <<>>
    /\ ~last.reported
    /\ pending_action_vm_id = 2

PostponeOps == {"postpone_resource", "postpone_agent"}

\* the largest budget a request arrives with
MaxBudget == DelayDuration

\* ceil(MaxBudget / DelayDuration)
MaxPostpones == (MaxBudget + DelayDuration - 1) \div DelayDuration

\* C20: a requirement event re-emitted by either postponement carries a buffer time
\* greater than -delay_duration and, for delay_duration > 0, smaller than the one examined.
C20_Step ==
    last'.op \in PostponeOps =>
        LET examined == last'.evt.payload.buffer_time
            reemitted == queue'[Len(queue')]
        IN /\ reemitted.tick = last'.evt.tick + DelayDuration
           /\ reemitted.payload.vm_req = last'.evt.payload.vm_req
           /\ reemitted.payload.buffer_time > -DelayDuration
           /\ DelayDuration > 0 => reemitted.payload.buffer_time < examined

\* C20: with a decision-maker that echoes the buffer time of the decision for the VM of
\* the decision, a request of budget b > 0 is postponed at most ceil(b / delay_duration)
\* times; b is the buffer time of its event in the buffer plus what the postponements took.
C20_Bound ==
    (agent.echo /\ agent.matched) =>
        /\ \A id \in VmIds : history.postpones[id] <= MaxPostpones
        /\ \A i \in 1..Len(queue) :
              "buffer_time" \in DOMAIN queue[i].payload =>
                  LET times == history.postpones[queue[i].payload.vm_req.id]
                      b == queue[i].payload.buffer_time + times * DelayDuration
                  IN times > 0 =>
                        /\ b > 0
                        /\ times <= (b + DelayDuration - 1) \div DelayDuration

\* C20: every step and every state are as above
C20_BudgetDecreases == []C20_Bound /\ [][C20_Step]_vars

\* a request of positive budget has been postponed by an echoing decision-maker
C20_Witness ==
    /\ last.op = "postpone_agent"
    /\ agent.echo /\ agent.matched
    /\ last.evt.payload.buffer_time = DelayDuration
    /\ history.postpones[last.evt.payload.vm_req.id] = MaxPostpones

====
